---- MODULE Spec2Model ----
(***************************************************************************)
(* A model of inertia-fastapi: the page builder of InertiaResponse         *)
(* (src/inertia/http.py), the prop variants (src/inertia/prop_classes.py), *)
(* the recursive resolution of producers (src/inertia/helpers.py) and the  *)
(* per-request shared state (src/inertia/share.py); then the way of one    *)
(* request through the application that setup_inertia builds: the shared   *)
(* data middleware, InertiaMiddleware (src/inertia/middleware.py), the     *)
(* route and the responder with its SSR call; two requests served          *)
(* concurrently; the history flags of the page object; and requests whose  *)
(* keys are empty or written with spaces.                                  *)
(*                                                                         *)
(* Text (header values, prop keys, component names) is a sequence of       *)
(* one-character strings, so that str.split(",") is modelled by what it    *)
(* does.  A Python dict is a sequence of <<key, value>> pairs with         *)
(* distinct keys: it keeps insertion order, as dicts do.  Header NAMES are *)
(* TLA+ strings; their letter case matters and is modelled by Lower.       *)
(***************************************************************************)
EXTENDS Integers, Sequences, FiniteSets, TLC

VARIABLES
    pc,         \* position in the life of one request
    wire,       \* the headers as the client sent them: name -> value
    scope,      \* request.headers as the framework stores them
    state,      \* request.state.inertia: [has, props]
    nshare,     \* number of share() calls made on this request
    props,      \* the dict the handler returned (InertiaResponse.props)
    page,       \* the page object of the last _build_page_data
    partial,    \* what is_a_partial_render answered during the last build
    invoked,    \* ids of the user callables invoked by the last build, in order
    app,        \* the application's setup and settings, fixed while it runs
    method,     \* request.method
    ran,        \* the application code this request has run, in order
    responder,  \* the InertiaResponse at work, through its SSR call
    returned,   \* what the handler gave back to the inertia decorator
    history,    \* the history settings of the request: the configured
                \* default, the override in request.state, the calls made
    down,       \* the response as the route returned it
    resp,       \* the response, as it stands on its way out
    reqs        \* two requests in flight: request -> its position, shared
                \* state, share calls so far, handler props and page

httpvars == <<app, method, ran, responder, returned, history, down, resp>>
vars == <<pc, wire, scope, state, nshare, props, page, partial, invoked,
          app, method, ran, responder, returned, history, down, resp, reqs>>

\* The number of share() calls one request makes in the model.
MaxShares == 2

---------------------------------------------------------------------------
(* Text *)

Comma == ","

\* str.split(sep) on a sequence of characters: the list of the pieces between
\* separators; the empty text gives one empty piece.
RECURSIVE Split(_, _)
Split(s, sep) ==
    IF \A i \in 1..Len(s) : s[i] # sep
    THEN <<s>>
    ELSE LET i == CHOOSE j \in 1..Len(s) :
                      s[j] = sep /\ \A m \in 1..(j - 1) : s[m] # sep
         IN  <<SubSeq(s, 1, i - 1)>> \o Split(SubSeq(s, i + 1, Len(s)), sep)

\* key in list
InList(x, l) == \E i \in 1..Len(l) : l[i] = x

---------------------------------------------------------------------------
(* Python dicts: sequences of <<key, value>> pairs, insertion-ordered *)

DictKeys(d) == [i \in 1..Len(d) |-> d[i][1]]
KeySet(d) == {d[i][1] : i \in 1..Len(d)}
HasKey(d, k) == \E i \in 1..Len(d) : d[i][1] = k
DictGet(d, k) == d[CHOOSE i \in 1..Len(d) : d[i][1] = k][2]

\* d[k] = v: an existing key keeps its position, a new key goes last
DictSet(d, k, v) ==
    IF HasKey(d, k)
    THEN [i \in 1..Len(d) |-> IF d[i][1] = k THEN <<k, v>> ELSE d[i]]
    ELSE Append(d, <<k, v>>)

\* {**a, **b}
RECURSIVE DictMerge(_, _)
DictMerge(a, b) ==
    IF b = <<>> THEN a
    ELSE DictMerge(DictSet(a, b[1][1], b[1][2]), Tail(b))

\* del d[k]
RECURSIVE DictDel(_, _)
DictDel(d, k) ==
    IF d = <<>> THEN <<>>
    ELSE IF d[1][1] = k THEN Tail(d)
    ELSE <<d[1]>> \o DictDel(Tail(d), k)

---------------------------------------------------------------------------
(* Values a prop can hold *)

\* a JSON scalar
Plain(n) == [kind |-> "plain", val |-> n]
\* a user callable (function or lambda) with identity i that returns r
Fn(i, r) == [kind |-> "fn", id |-> i, ret |-> r]
\* a Python dict / a Python list
Dict(items) == [kind |-> "dict", items |-> items]
List(elems) == [kind |-> "list", elems |-> elems]

OptionalProp(p) == [kind |-> "OptionalProp", prop |-> p]
DeferredProp(p, g, m) ==
    [kind |-> "DeferredProp", prop |-> p, group |-> g, merge |-> m]
MergeProp(p) == [kind |-> "MergeProp", prop |-> p]

\* isinstance(v, CallableProp)
IsCallableProp(v) == v.kind \in {"OptionalProp", "DeferredProp", "MergeProp"}
\* DeferredProp no longer derives from IgnoreOnFirstLoadProp
IsIgnoreOnFirstLoadProp_OptionalOnly(v) == v.kind = "OptionalProp"
\* isinstance(v, IgnoreOnFirstLoadProp)
IsIgnoreOnFirstLoadProp(v) == v.kind \in {"OptionalProp", "DeferredProp"}
\* isinstance(v, MergeableProp)
IsMergeableProp(v) == v.kind \in {"DeferredProp", "MergeProp"}
\* isinstance(v, DeferredProp)
IsDeferredProp(v) == v.kind = "DeferredProp"
\* v.should_merge() of a MergeableProp
should_merge(v) == IF v.kind = "DeferredProp" THEN v.merge ELSE TRUE
\* callable(v): user callables and the CallableProp variants (they define __call__)
callable(v) == v.kind = "fn" \/ IsCallableProp(v)

---------------------------------------------------------------------------
(* Resolution of producers *)

\* p() for a callable p.  A user callable returns its result and is logged;
\* CallableProp.__call__ returns self.prop() if callable(self.prop) else self.prop.
RECURSIVE Invoke(_)
Invoke(p) ==
    IF p.kind = "fn"
    THEN [res |-> p.ret, log |-> <<p.id>>]
    ELSE IF callable(p.prop)
         THEN Invoke(p.prop)
         ELSE [res |-> p.prop, log |-> <<>>]

\* the walk without the recursion: the values of a dict are called if they
\* are callable, and a dict among them is left as it is
RECURSIVE ShallowItems(_)
ShallowItems(items) ==
    IF items = <<>>
    THEN [res |-> <<>>, log |-> <<>>]
    ELSE LET v == items[1][2]
             h == IF callable(v) THEN Invoke(v) ELSE [res |-> v, log |-> <<>>]
             t == ShallowItems(Tail(items))
         IN  [res |-> <<<<items[1][1], h.res>>>> \o t.res, log |-> h.log \o t.log]

deep_transform_callables_OneLevel(prop) ==
    IF prop.kind # "dict"
    THEN IF callable(prop) THEN Invoke(prop) ELSE [res |-> prop, log |-> <<>>]
    ELSE LET t == ShallowItems(prop.items)
         IN  [res |-> Dict(t.res), log |-> t.log]

\* deep_transform_callables(prop): what it returns (res) and the user callables
\* it invoked (log).  For a dict, res is that same dict object, updated in place.
RECURSIVE deep_transform_callables(_)
RECURSIVE TransformItems(_)
deep_transform_callables(prop) ==
    IF prop.kind # "dict"
    THEN IF callable(prop) THEN Invoke(prop) ELSE [res |-> prop, log |-> <<>>]
    ELSE LET t == TransformItems(prop.items)
         IN  [res |-> Dict(t.res), log |-> t.log]

\* for key in list(prop.keys()): prop[key] = deep_transform_callables(prop[key])
TransformItems(items) ==
    IF items = <<>>
    THEN [res |-> <<>>, log |-> <<>>]
    ELSE LET h == deep_transform_callables(items[1][2])
             t == TransformItems(Tail(items))
         IN  [res |-> <<<<items[1][1], h.res>>>> \o t.res, log |-> h.log \o t.log]

---------------------------------------------------------------------------
(* Request headers *)

\* str.lower() on the header names the program reads
Lower(n) ==
    CASE n = "X-Inertia" -> "x-inertia"
      [] n = "X-Inertia-Partial-Data" -> "x-inertia-partial-data"
      [] n = "X-Inertia-Partial-Component" -> "x-inertia-partial-component"
      [] n = "X-Inertia-Reset" -> "x-inertia-reset"
      [] n = "X-Inertia-Version" -> "x-inertia-version"
      [] n = "X-Inertia-Location" -> "x-inertia-location"
      [] n = "Location" -> "location"
      [] n = "Vary" -> "vary"
      [] n = "Content-Type" -> "content-type"
      [] OTHER -> n

\* request.headers of a served request: the ASGI server hands the framework
\* every header name in lower case (scope["headers"]), whatever the client
\* wrote, and starlette's Headers keeps that list as it is.
AsgiScopeHeaders(w) ==
    [n \in {Lower(m) : m \in DOMAIN w} |->
        w[CHOOSE m \in DOMAIN w : Lower(m) = n]]

\* starlette Headers.__contains__ / __getitem__: the name asked for is
\* lower-cased and compared with the stored names.
HeadersContains(sc, name) == Lower(name) \in DOMAIN sc
HeadersGetItem(sc, name) == sc[Lower(name)]

\* InertiaRequest.headers: dict(self.request.headers).  dict() copies the
\* mapping through Headers.keys(), the stored names, and Headers.__getitem__;
\* the copy is a plain dict, so "in" and .get on it match names exactly.
headers(sc) == [n \in DOMAIN sc |-> HeadersGetItem(sc, n)]

\* dict.get(name, default)
HeaderGet(h, name, default) == IF name \in DOMAIN h THEN h[name] ELSE default

\* InertiaRequest.is_inertia
is_inertia(sc) == "X-Inertia" \in DOMAIN headers(sc)

\* InertiaRequest.is_a_partial_render(component)
is_a_partial_render(sc, component) ==
    /\ "X-Inertia-Partial-Data" \in DOMAIN headers(sc)
    /\ HeaderGet(headers(sc), "X-Inertia-Partial-Component", <<>>) = component

\* InertiaRequest.partial_keys
partial_keys(sc) ==
    Split(HeaderGet(headers(sc), "X-Inertia-Partial-Data", <<>>), Comma)

\* InertiaRequest.reset_keys
reset_keys(sc) ==
    Split(HeaderGet(headers(sc), "X-Inertia-Reset", <<>>), Comma)

---------------------------------------------------------------------------
(* Shared state *)

\* request.state before any share(): no "inertia" attribute
NoShare == [has |-> FALSE, props |-> <<>>]

\* InertiaShare.set that keeps only what the last call wrote
InertiaShare_set_Replace(bag, kwargs) == kwargs

\* InertiaShare.set(**kwargs)
InertiaShare_set(bag, kwargs) == DictMerge(bag, kwargs)

\* share(request, **kwargs): creates the InertiaShare on first use, then set
share(st, kwargs) ==
    [has |-> TRUE,
     props |-> InertiaShare_set(IF st.has THEN st.props ELSE <<>>, kwargs)]

\* InertiaRequest.inertia, read through the fresh InertiaRequest that
\* InertiaResponse.__init__ builds (its own _inertia_state is empty)
inertia(st) == IF st.has THEN st.props ELSE <<>>

---------------------------------------------------------------------------
(* Page builder *)

\* the loop of _build_props over list(_props.keys()): drops in place
RECURSIVE FilterProps(_, _, _, _)
FilterProps(keys, p, sc, component) ==
    IF keys = <<>> THEN p
    ELSE LET key == Head(keys)
             drop == IF is_a_partial_render(sc, component)
                     THEN ~InList(key, partial_keys(sc))
                     ELSE IsIgnoreOnFirstLoadProp(DictGet(p, key))
         IN  FilterProps(Tail(keys), IF drop THEN DictDel(p, key) ELSE p,
                         sc, component)

\* the two dicts merged the other way round: shared state wins
MergedProps_SharedWins(st, pr) == DictMerge(pr, inertia(st))

\* _props = {**self.inertia_request.inertia, **self.props}
MergedProps(st, pr) == DictMerge(inertia(st), pr)

\* the producers resolved before the filter runs
_build_props_ResolveFirst(sc, st, pr, component) ==
    LET merged == MergedProps(st, pr)
        kept == FilterProps(DictKeys(merged), merged, sc, component)
        t == deep_transform_callables(Dict(merged))
        IsKept(e) == HasKey(kept, e[1])
    IN  [res |-> SelectSeq(t.res.items, IsKept), log |-> t.log]

\* InertiaResponse._build_props: res is the props of the page, log the user
\* callables invoked
_build_props(sc, st, pr, component) ==
    LET merged == MergedProps(st, pr)
        kept == FilterProps(DictKeys(merged), merged, sc, component)
        t == deep_transform_callables(Dict(kept))
    IN  [res |-> t.res.items, log |-> t.log]

\* _deferred_props.setdefault(prop.group, []).append(key), over self.props.items()
RECURSIVE GroupDeferred(_, _)
GroupDeferred(items, acc) ==
    IF items = <<>> THEN acc
    ELSE LET key == items[1][1]
             prop == items[1][2]
             old == IF HasKey(acc, prop.group) THEN DictGet(acc, prop.group)
                    ELSE <<>>
         IN  IF IsDeferredProp(prop)
             THEN GroupDeferred(Tail(items),
                                DictSet(acc, prop.group, Append(old, key)))
             ELSE GroupDeferred(Tail(items), acc)

\* the manifest computed from the filtered props instead of self.props
_build_deferred_props_Filtered(sc, pr, component) ==
    IF is_a_partial_render(sc, component) THEN <<>>
    ELSE GroupDeferred(FilterProps(DictKeys(pr), pr, sc, component), <<>>)

\* InertiaResponse._build_deferred_props: <<>> stands for None and for {}
_build_deferred_props(sc, pr, component) ==
    IF is_a_partial_render(sc, component) THEN <<>>
    ELSE GroupDeferred(pr, <<>>)

\* the merge list computed from the props that are delivered on first load
_build_merge_props_Delivered(sc, pr) ==
    LET Keep(e) == /\ IsMergeableProp(e[2])
                   /\ should_merge(e[2])
                   /\ ~IsIgnoreOnFirstLoadProp(e[2])
                   /\ ~InList(e[1], reset_keys(sc))
    IN  DictKeys(SelectSeq(pr, Keep))

\* InertiaResponse._build_merge_props
RECURSIVE _build_merge_props(_, _)
_build_merge_props(sc, pr) ==
    IF pr = <<>> THEN <<>>
    ELSE LET key == pr[1][1]
             prop == pr[1][2]
             rest == _build_merge_props(sc, Tail(pr))
         IN  IF /\ IsMergeableProp(prop)
                /\ should_merge(prop)
                /\ ~InList(key, reset_keys(sc))
             THEN <<key>> \o rest
             ELSE rest

\* What the in-place update of deep_transform_callables leaves in a dict d one
\* of whose values went into _props: a value that is a dict and was kept is the
\* same object as the one in the page's props, so it now holds the results.
AfterBuild(d, shadow, built) ==
    [i \in 1..Len(d) |->
        IF /\ d[i][2].kind = "dict"
           /\ ~HasKey(shadow, d[i][1])
           /\ HasKey(built, d[i][1])
        THEN <<d[i][1], DictGet(built, d[i][1])>>
        ELSE d[i]]

\* InertiaResponse._build_page_data: the optional fields are set only when
\* their value is truthy.  The page is modelled by the fields that the props
\* and the partial and reset headers decide: component, props, deferredProps,
\* mergeProps.
_build_page_data(sc, st, pr, component) ==
    LET bp == _build_props(sc, st, pr, component)
        pr2 == AfterBuild(pr, <<>>, bp.res)
        dp == _build_deferred_props(sc, pr2, component)
        mp == _build_merge_props(sc, pr2)
        base == [component |-> component, props |-> bp.res]
        withD == IF dp # <<>> THEN base @@ ("deferredProps" :> dp) ELSE base
    IN  IF mp # <<>> THEN withD @@ ("mergeProps" :> mp) ELSE withD

---------------------------------------------------------------------------
(* Inputs *)

\* prop keys "name", "sport", "team"
kn == <<"n">>
ks == <<"s">>
kt == <<"t">>

\* the component the handler renders, and the same name in another letter case
TestComponent == <<"C">>
OtherCase == <<"c">>

\* the values a handler puts under a key; i names the user callable in it
HandlerValues(i) ==
    { Plain(1),
      Fn(i, Plain(2)),
      OptionalProp(Fn(i, Plain(2))),
      DeferredProp(Fn(i, Plain(2)), "default", FALSE),
      DeferredProp(Plain(1), "group", TRUE),
      MergeProp(Fn(i, Plain(2))),
      Dict(<< <<ks, Fn(i, Plain(2))>>,
              <<kt, Dict(<< <<ks, Fn(i + 10, Plain(2))>> >>)>> >>),
      List(<<Fn(i, Plain(2)), Plain(1)>>) }

HandlerEntries == {<<k, v>> : k \in {ks}, v \in HandlerValues(1)}
                  \cup {<<k, v>> : k \in {kt}, v \in HandlerValues(2)}

\* the dicts a handler returns: up to two keys, in either order
HandlerProps ==
    {<<>>} \cup {<<e>> : e \in HandlerEntries}
    \cup {d \in {<<e, f>> : e \in HandlerEntries, f \in HandlerEntries} :
             d[1][1] # d[2][1]}

\* what share() is called with: one keyword argument
SharedValues(i) ==
    { Plain(3),
      Fn(i, Plain(4)),
      DeferredProp(Fn(i, Plain(4)), "default", TRUE) }

SharedKwargs ==
    {<<<<kn, v>>>> : v \in SharedValues(5)}
    \cup {<<<<ks, v>>>> : v \in SharedValues(6)}

\* the header sets a client sends: every name spelled as the protocol writes
\* it, or every name in lower case
Spell(lower, n) == IF lower THEN Lower(n) ELSE n

WireHeaders ==
    { [n \in {} |-> <<>>] }
    \cup
    { [n \in {Spell(lc, m) : m \in names} |->
          CASE Lower(n) = "x-inertia" -> <<"1">>
            [] Lower(n) = "x-inertia-partial-data" -> pd
            [] Lower(n) = "x-inertia-partial-component" -> comp
            [] Lower(n) = "x-inertia-reset" -> rs
            [] OTHER -> <<>>] :
        lc \in BOOLEAN,
        pd \in {<<"s">>, <<"s", ",", "t">>},
        comp \in {TestComponent, OtherCase},
        rs \in {<<"s">>},
        names \in { {"X-Inertia"},
                    {"X-Inertia", "X-Inertia-Reset"},
                    {"X-Inertia", "X-Inertia-Partial-Data"},
                    {"X-Inertia", "X-Inertia-Partial-Data", "X-Inertia-Reset"},
                    {"X-Inertia", "X-Inertia-Partial-Data",
                     "X-Inertia-Partial-Component"},
                    {"X-Inertia", "X-Inertia-Partial-Data",
                     "X-Inertia-Partial-Component", "X-Inertia-Reset"} } }

---------------------------------------------------------------------------
(* The life of one request *)

NoHeaders == [n \in {} |-> <<>>]
NoPage == [component |-> <<>>, props |-> <<>>]

\* setup_inertia(app, templates_dir) with the default settings: no
\* shared_data_callback, INERTIA_SSR_ENABLED False
DefaultApp == [shared_data_callback |-> FALSE, INERTIA_SSR_ENABLED |-> FALSE]
\* no response yet
NoResponse == [kind |-> "none"]

\* Python values that are no props: True and False, a string, None
PyBool(b) == [kind |-> "bool", val |-> b]
PyStr == [kind |-> "str"]
PyNone == [kind |-> "NoneType"]
\* no attribute of that name in request.state
Unset == [kind |-> "unset"]

\* the history settings before anything is called, with the default
\* settings: INERTIA_ENCRYPT_HISTORY False, no override in request.state
NoHistory ==
    [INERTIA_ENCRYPT_HISTORY |-> FALSE, encrypt |-> Unset,
     clear_history_called |-> FALSE]

Init ==
    /\ pc = "idle"
    /\ wire = NoHeaders
    /\ scope = NoHeaders
    /\ state = NoShare
    /\ nshare = 0
    /\ props = <<>>
    /\ page = NoPage
    /\ partial = FALSE
    /\ invoked = <<>>
    /\ app = DefaultApp
    /\ method = ""
    /\ ran = <<>>
    /\ responder = NoResponse
    /\ returned = NoResponse
    /\ history = NoHistory
    /\ down = NoResponse
    /\ resp = NoResponse
    /\ reqs = <<>>

\* a request arrives; the server builds the scope
Receive(w) ==
    /\ pc = "idle"
    /\ pc' = "open"
    /\ wire' = w
    /\ scope' = AsgiScopeHeaders(w)
    /\ UNCHANGED <<state, nshare, props, page, partial, invoked>>
    /\ UNCHANGED <<httpvars, reqs>>

\* application code calls share(request, **kwargs)
Share(kwargs) ==
    /\ pc = "open"
    /\ nshare < MaxShares
    /\ state' = share(state, kwargs)
    /\ nshare' = nshare + 1
    /\ UNCHANGED <<pc, wire, scope, props, page, partial, invoked>>
    /\ UNCHANGED <<httpvars, reqs>>

\* the handler returns its props
Handler(p) ==
    /\ pc = "open"
    /\ pc' = "handled"
    /\ props' = p
    /\ UNCHANGED <<wire, scope, state, nshare, page, partial, invoked>>
    /\ UNCHANGED <<httpvars, reqs>>

\* InertiaResponse(request, TestComponent, props)._build_page_data()
BuildPageData ==
    /\ pc \in {"handled", "built"}
    /\ pc' = "built"
    /\ LET bp == _build_props(scope, state, props, TestComponent)
       IN  /\ page' = _build_page_data(scope, state, props, TestComponent)
           /\ invoked' = bp.log
           /\ props' = AfterBuild(props, <<>>, bp.res)
           /\ state' = [state EXCEPT !.props = AfterBuild(@, props, bp.res)]
    /\ partial' = is_a_partial_render(scope, TestComponent)
    /\ UNCHANGED <<wire, scope, nshare>>
    /\ UNCHANGED <<httpvars, reqs>>

\* the request is over
Finish ==
    /\ pc = "built"
    /\ pc' = "idle"
    /\ wire' = NoHeaders
    /\ scope' = NoHeaders
    /\ state' = NoShare
    /\ nshare' = 0
    /\ props' = <<>>
    /\ page' = NoPage
    /\ partial' = FALSE
    /\ invoked' = <<>>
    /\ UNCHANGED <<httpvars, reqs>>

Next ==
    \/ \E w \in WireHeaders : Receive(w)
    \/ \E kwargs \in SharedKwargs : Share(kwargs)
    \/ \E p \in HandlerProps : Handler(p)
    \/ BuildPageData
    \/ Finish

Spec == Init /\ [][Next]_vars

---------------------------------------------------------------------------
(* The vocabulary of the claims: what the client asked for, read from the *)
(* headers it sent (HTTP header names are case-insensitive)                *)

Built == pc = "built"

Carries(name) == \E m \in DOMAIN wire : Lower(m) = Lower(name)
Sent(name, default) ==
    IF Carries(name)
    THEN wire[CHOOSE m \in DOMAIN wire : Lower(m) = Lower(name)]
    ELSE default

\* the request asks for a partial render of the rendered component
AsksPartial ==
    /\ Carries("X-Inertia-Partial-Data")
    /\ Carries("X-Inertia-Partial-Component")
    /\ Sent("X-Inertia-Partial-Component", <<>>) = TestComponent

RequestedKeys == Split(Sent("X-Inertia-Partial-Data", <<>>), Comma)
ResetKeys == Split(Sent("X-Inertia-Reset", <<>>), Comma)

\* every key the handler or the shared state supplies, with the value that
\* the handler's props give it, or else the shared state
Available == DictMerge(inertia(state), props)

IsOptionalOrDeferred(v) == v.kind \in {"OptionalProp", "DeferredProp"}
DeclaresMerge(v) ==
    \/ v.kind = "MergeProp"
    \/ (v.kind = "DeferredProp" /\ v.merge)

\* what invoking a producer yields
RECURSIVE Produced(_)
Produced(v) ==
    IF v.kind = "fn" THEN v.ret
    ELSE IF v.prop.kind \in {"fn", "OptionalProp", "DeferredProp", "MergeProp"}
         THEN Produced(v.prop)
         ELSE v.prop

---------------------------------------------------------------------------
(* C1 *)

\* C1: on a request that does not ask for a partial render of the component,
\* no prop whose value is an Optional or Deferred variant, explicit or shared,
\* is in the props of the page.
C1_IgnoredOnFirstLoad ==
    (Built /\ ~AsksPartial) =>
        \A i \in 1..Len(Available) :
            IsOptionalOrDeferred(Available[i][2])
                => ~HasKey(page.props, Available[i][1])

\* a request whose partial headers name another component, an explicit
\* Optional prop and a shared Deferred prop, both left out
C1_Witness ==
    /\ Built /\ ~AsksPartial
    /\ Carries("X-Inertia-Partial-Data")
    /\ HasKey(props, ks) /\ DictGet(props, ks).kind = "OptionalProp"
    /\ ~HasKey(props, kn)
    /\ HasKey(inertia(state), kn)
    /\ DictGet(inertia(state), kn).kind = "DeferredProp"
    /\ ~HasKey(page.props, ks) /\ ~HasKey(page.props, kn)
    /\ HasKey(page.props, kt)

---------------------------------------------------------------------------
(* C2 *)

\* C2: the response is built as a partial render exactly when the request
\* carries X-Inertia-Partial-Data and its X-Inertia-Partial-Component equals
\* the component.
C2_PartialIff == Built => (partial <=> AsksPartial)

---------------------------------------------------------------------------
(* C3 *)

\* C3: on a request that asks for a partial render of the component, the keys
\* of the page's props are the requested keys that are available.
C3_PartialIntersection ==
    (Built /\ AsksPartial) =>
        KeySet(page.props) =
            {k \in KeySet(Available) : InList(k, RequestedKeys)}

---------------------------------------------------------------------------
(* C4 *)

\* C4: on a request that does not ask for a partial render, deferredProps
\* maps each group to the keys of the handler's Deferred props of that group,
\* groups and keys in the order of the handler's props, every Deferred key
\* once; with no Deferred prop the field is absent.
C4_DeferredManifest ==
    (Built /\ ~AsksPartial) =>
        LET IsDef(e) == e[2].kind = "DeferredProp"
            defs == SelectSeq(props, IsDef)
            First(g) == CHOOSE i \in 1..Len(defs) :
                            /\ defs[i][2].group = g
                            /\ \A j \in 1..(i - 1) : defs[j][2].group # g
        IN  IF defs = <<>>
            THEN "deferredProps" \notin DOMAIN page
            ELSE /\ "deferredProps" \in DOMAIN page
                 /\ LET dp == page.deferredProps
                    IN  /\ KeySet(dp) = {defs[i][2].group : i \in 1..Len(defs)}
                        /\ \A a, b \in 1..Len(dp) :
                               a < b => First(dp[a][1]) < First(dp[b][1])
                        /\ \A a \in 1..Len(dp) :
                               LET InGroup(e) == /\ e[2].kind = "DeferredProp"
                                                 /\ e[2].group = dp[a][1]
                               IN  dp[a][2] = DictKeys(SelectSeq(props, InGroup))

\* two Deferred props of one group, listed in the order of the handler's dict
C4_Witness ==
    /\ Built /\ ~AsksPartial
    /\ DictKeys(props) = <<kt, ks>>
    /\ "deferredProps" \in DOMAIN page
    /\ page.deferredProps = << <<"group", <<kt, ks>>>> >>

---------------------------------------------------------------------------
(* C5 *)

\* C5: on a request that asks for a partial render and names the key of a
\* Deferred prop, the prop is in props as the producer's result and the page
\* has no deferredProps field.
C5_RequestedDeferred ==
    (Built /\ AsksPartial) =>
        \A i \in 1..Len(Available) :
            (/\ Available[i][2].kind = "DeferredProp"
             /\ InList(Available[i][1], RequestedKeys))
            => /\ HasKey(page.props, Available[i][1])
               /\ DictGet(page.props, Available[i][1]) = Produced(Available[i][2])
               /\ "deferredProps" \notin DOMAIN page

---------------------------------------------------------------------------
(* C6 *)

\* C6: mergeProps is the list of the handler's keys whose variant declares
\* should-merge and that the X-Inertia-Reset header does not name; the field
\* is absent when that list is empty.
C6_MergeExceptReset ==
    Built =>
        LET Wanted(e) == DeclaresMerge(e[2]) /\ ~InList(e[1], ResetKeys)
            want == DictKeys(SelectSeq(props, Wanted))
        IN  IF Len(want) = 0
            THEN "mergeProps" \notin DOMAIN page
            ELSE "mergeProps" \in DOMAIN page /\ page.mergeProps = want

---------------------------------------------------------------------------
(* C7 *)

Listed(k) == "mergeProps" \in DOMAIN page /\ InList(k, page.mergeProps)

\* C7: a should-merge key that is not reset is listed in mergeProps whether or
\* not it is delivered: a Deferred prop with the merge flag on a request that
\* asks for no partial render (it is left out of props), and a key that a
\* partial request does not name.
C7_MergeIndependentOfProps ==
    Built =>
        \A i \in 1..Len(props) :
            (DeclaresMerge(props[i][2]) /\ ~InList(props[i][1], ResetKeys)) =>
                /\ (~AsksPartial /\ props[i][2].kind = "DeferredProp")
                      => (Listed(props[i][1]) /\ ~HasKey(page.props, props[i][1]))
                /\ (AsksPartial /\ ~InList(props[i][1], RequestedKeys))
                      => Listed(props[i][1])

\* a partial request for "s" alone; "t" is Deferred with the merge flag: it
\* is listed and not delivered
C7_Witness ==
    /\ Built /\ AsksPartial
    /\ RequestedKeys = <<ks>>
    /\ ~Carries("X-Inertia-Reset")
    /\ HasKey(props, kt)
    /\ DictGet(props, kt).kind = "DeferredProp" /\ DictGet(props, kt).merge
    /\ Listed(kt)
    /\ ~HasKey(page.props, kt)

---------------------------------------------------------------------------
(* C8 *)

\* a value after resolution: a producer gives its result
Resolved(v) ==
    IF v.kind \in {"fn", "OptionalProp", "DeferredProp", "MergeProp"}
    THEN Produced(v) ELSE v

\* C8 as stated: every shared key the handler does not supply is in the props
\* of the page with its shared value, and a key in both has the handler's value.
C8_EverySharedKeyAppears ==
    Built =>
        \A i \in 1..Len(inertia(state)) :
            LET k == inertia(state)[i][1]
            IN  IF HasKey(props, k)
                THEN HasKey(page.props, k)
                        => DictGet(page.props, k) = Resolved(DictGet(props, k))
                ELSE /\ HasKey(page.props, k)
                     /\ DictGet(page.props, k) = Resolved(inertia(state)[i][2])

\* C8 (amended): the props of the page come from the shared state merged under
\* the handler's props.  A shared key that the inclusion filter keeps has the
\* handler's value if the handler supplies the key and its shared value
\* otherwise, after resolution; on a request that asks for no partial render
\* the key is kept unless that value is an Optional or Deferred variant.
C8_SharedUnderExplicit ==
    Built =>
        /\ KeySet(page.props) \subseteq KeySet(inertia(state)) \cup KeySet(props)
        /\ \A i \in 1..Len(inertia(state)) :
            LET k == inertia(state)[i][1]
                v == IF HasKey(props, k) THEN DictGet(props, k)
                     ELSE inertia(state)[i][2]
            IN  /\ HasKey(page.props, k) => DictGet(page.props, k) = Resolved(v)
                /\ (~AsksPartial /\ ~IsOptionalOrDeferred(v))
                      => HasKey(page.props, k)

\* two share() calls, then a handler that supplies "s" again: "n" arrives with
\* the result of its shared producer, "s" with the handler's value
C8_Witness ==
    /\ Built
    /\ nshare = 2
    /\ DictKeys(inertia(state)) = <<kn, ks>>
    /\ DictGet(inertia(state), kn) = Fn(5, Plain(4))
    /\ DictGet(inertia(state), ks) = Plain(3)
    /\ props = << <<ks, Plain(1)>> >>
    /\ page.props = << <<kn, Plain(4)>>, <<ks, Plain(1)>> >>

---------------------------------------------------------------------------
(* C9 *)

\* the user callables anywhere inside a value
RECURSIVE IdsIn(_)
IdsIn(v) ==
    CASE v.kind = "fn" -> {v.id} \cup IdsIn(v.ret)
      [] v.kind \in {"OptionalProp", "DeferredProp", "MergeProp"} -> IdsIn(v.prop)
      [] v.kind = "dict" ->
            UNION {IdsIn(v.items[i][2]) : i \in 1..Len(v.items)}
      [] v.kind = "list" -> UNION {IdsIn(v.elems[i]) : i \in 1..Len(v.elems)}
      [] OTHER -> {}

\* the user callable a producer ends in, if any
RECURSIVE ProducerIds(_)
ProducerIds(v) ==
    CASE v.kind = "fn" -> {v.id}
      [] v.kind \in {"OptionalProp", "DeferredProp", "MergeProp"} ->
            IF v.prop.kind \in {"fn", "OptionalProp", "DeferredProp", "MergeProp"}
            THEN ProducerIds(v.prop) ELSE {}
      [] OTHER -> {}

Count(id, log) == Cardinality({i \in 1..Len(log) : log[i] = id})

---------------------------------------------------------------------------
(* C10 *)

\* no callable at the top of v, in a nested dict or in a nested list
RECURSIVE NoProducerIn(_)
NoProducerIn(v) ==
    CASE v.kind \in {"fn", "OptionalProp", "DeferredProp", "MergeProp"} -> FALSE
      [] v.kind = "dict" ->
            \A i \in 1..Len(v.items) : NoProducerIn(v.items[i][2])
      [] v.kind = "list" -> \A i \in 1..Len(v.elems) : NoProducerIn(v.elems[i])
      [] OTHER -> TRUE

\* C10 as stated: after resolution no producer remains anywhere in the props
\* tree, nested mappings and nested sequences included.
C10_NoProducerRemains ==
    Built => \A i \in 1..Len(page.props) : NoProducerIn(page.props[i][2])

\* out is in with the producers that sit at its top or in its nested dicts
\* replaced by their results, and everything else as it was
RECURSIVE MappingsResolved(_, _)
MappingsResolved(in, out) ==
    IF in.kind = "dict"
    THEN /\ out.kind = "dict"
         /\ DictKeys(out.items) = DictKeys(in.items)
         /\ \A i \in 1..Len(in.items) :
                MappingsResolved(in.items[i][2], out.items[i][2])
    ELSE out = Resolved(in)

\* C10 (amended): resolution walks nested mappings, not sequences: a build
\* replaces every producer at the top level of the kept props or inside a
\* nested mapping at any depth by its result, and leaves every other value,
\* the contents of a sequence included, as it was.
C10_MappingsResolved ==
    [][pc' = "built" =>
        \A i \in 1..Len(page'.props) :
            /\ HasKey(Available, page'.props[i][1])
            /\ MappingsResolved(DictGet(Available, page'.props[i][1]),
                                page'.props[i][2])]_vars

\* a dict whose producers at depth one and two were replaced, beside a list
\* whose callable is still there
C10_Witness ==
    /\ Built
    /\ HasKey(page.props, ks) /\ HasKey(page.props, kt)
    /\ DictGet(page.props, ks) =
          Dict(<< <<ks, Plain(2)>>, <<kt, Dict(<< <<ks, Plain(2)>> >>)>> >>)
    /\ invoked = <<1, 11>>
    /\ DictGet(page.props, kt) = List(<<Fn(2, Plain(2)), Plain(1)>>)

---------------------------------------------------------------------------
(* Responses *)

\* http.HTTPStatus, as the program names them
OK == 200
MOVED_PERMANENTLY == 301
FOUND == 302
SEE_OTHER == 303
CONFLICT == 409

\* starlette MutableHeaders: names are matched without regard to case
MutableHeadersContains(h, name) == Lower(name) \in DOMAIN h
MutableHeadersGet(h, name, default) ==
    IF Lower(name) \in DOMAIN h THEN h[Lower(name)] ELSE default
MutableHeadersSet(h, name, v) ==
    [n \in DOMAIN h \cup {Lower(name)} |-> IF n = Lower(name) THEN v ELSE h[n]]
MutableHeadersDel(h, name) == [n \in DOMAIN h \ {Lower(name)} |-> h[n]]

\* the headers= argument of a starlette Response, a dict given as a sequence
\* of <<name, value>>: later names overwrite earlier ones
RECURSIVE InitHeaders(_)
InitHeaders(items) ==
    IF items = <<>> THEN [n \in {} |-> ""]
    ELSE LET last == items[Len(items)]
         IN  MutableHeadersSet(InitHeaders(SubSeq(items, 1, Len(items) - 1)),
                               last[1], last[2])

\* starlette Response.init_headers: the media type of the response class
\* fills in Content-Type unless the caller's headers name one
WithMediaType(h, media) ==
    IF MutableHeadersContains(h, "Content-Type") THEN h
    ELSE MutableHeadersSet(h, "Content-Type", media)

\* json_encode(page_data): the page object as JSON text
json_encode(v) == [json |-> v]

\* json.loads(text), as InertiaTestCase.page reads a body
json_decode(text) == text.json

\* location(url)
location(url) ==
    [kind |-> "Response", status |-> CONFLICT,
     headers |-> InitHeaders(<<<<"X-Inertia-Location", url>>>>), body |-> ""]

\* JSONResponse(content=data, status_code=..., headers=...) of __call__:
\* JSONResponse renders its content with json.dumps, and the content it is
\* given is the text json_encode produced
JSONResponse(data, status_code, hdrs) ==
    [kind |-> "JSONResponse", status |-> status_code,
     headers |-> WithMediaType(InitHeaders(hdrs), "application/json"),
     body |-> json_encode(data)]

\* HTMLResponse(content=content, status_code=..., headers=...)
HTMLResponse(content, status_code, hdrs) ==
    [kind |-> "HTMLResponse", status |-> status_code,
     headers |-> WithMediaType(InitHeaders(hdrs), "text/html; charset=utf-8"),
     body |-> content]

\* what a route returns when it does not render: Response(status_code=...)
\* or RedirectResponse(url, status_code=...)
PlainResponse(status_code, hdrs) ==
    [kind |-> "Response", status |-> status_code,
     headers |-> InitHeaders(hdrs), body |-> ""]

---------------------------------------------------------------------------
(* Server-side rendering on first load *)

kpage == <<"p", "a", "g", "e">>
kbody == <<"b", "o", "d", "y">>

\* what the SSR service can do with requests.post(.../render): answer 2xx
\* with a JSON object, or fail in one of the ways the try block covers
SsrOutcomes ==
    {"rendered", "network error", "non-2xx status", "invalid JSON",
     "JSON that is no object"}

\* response.json() of a successful SSR call
SsrRendered == <<<<kbody, Plain(8)>>>>

\* _build_first_load_context_and_template with every failure propagated
_build_first_load_context_and_template_Raise(ssr_enabled, outcome, data, template_data) ==
    IF ssr_enabled /\ outcome = "rendered"
    THEN [context |-> DictMerge(SsrRendered, template_data),
          template |-> "inertia_ssr.html"]
    ELSE IF ssr_enabled
    THEN [context |-> <<>>, template |-> outcome]
    ELSE [context |-> DictMerge(<<<<kpage, data>>>>, template_data),
          template |-> "inertia.html"]

\* _build_first_load_context_and_template(data), once the SSR call (if any)
\* has ended with `outcome`
_build_first_load_context_and_template(ssr_enabled, outcome, data, template_data) ==
    IF ssr_enabled /\ outcome = "rendered"
    THEN [context |-> DictMerge(SsrRendered, template_data),
          template |-> "inertia_ssr.html"]
    ELSE [context |-> DictMerge(<<<<kpage, data>>>>, template_data),
          template |-> "inertia.html"]

\* _build_first_load(data): the template rendered with the layout and context
_build_first_load(ssr_enabled, outcome, data, template_data) ==
    LET ct == _build_first_load_context_and_template(
                  ssr_enabled, outcome, data, template_data)
    IN  [template |-> ct.template, inertia_layout |-> "base.html",
         context |-> ct.context]

---------------------------------------------------------------------------
(* InertiaMiddleware *)

\* settings.INERTIA_VERSION
INERTIA_VERSION == <<"1", ".", "0">>

\* starlette Headers.get(name, default) on request.headers
RequestHeadersGet(sc, name, default) ==
    IF HeadersContains(sc, name) THEN HeadersGetItem(sc, name) ELSE default

_is_inertia_request(sc) == HeadersContains(sc, "X-Inertia")

_is_redirect_response_Any3xx(r) == r.status \in {MOVED_PERMANENTLY, FOUND, SEE_OTHER, 307}
_is_redirect_response(r) == r.status \in {MOVED_PERMANENTLY, FOUND}

_is_non_get_redirect_NoDelete(m, r) ==
    _is_redirect_response(r) /\ m \in {"PUT", "PATCH"}
_is_non_get_redirect(m, r) ==
    _is_redirect_response(r) /\ m \in {"PUT", "PATCH", "DELETE"}

_is_stale_MissingIsCurrent(sc) ==
    RequestHeadersGet(sc, "X-Inertia-Version", INERTIA_VERSION) # INERTIA_VERSION
_is_stale(sc) ==
    RequestHeadersGet(sc, "X-Inertia-Version", <<>>) # INERTIA_VERSION

_force_refresh(url) == location(url)

\* dispatch, before call_next: does the middleware answer by itself?
RefusesStale(sc, m) == _is_inertia_request(sc) /\ m = "GET" /\ _is_stale(sc)

\* the redirect of an Inertia request turned into a location response, the
\* Location header left in place
ToLocationResponse_KeepLocation(r) ==
    [r EXCEPT !.status = CONFLICT,
              !.headers = MutableHeadersSet(@, "X-Inertia-Location",
                              MutableHeadersGet(r.headers, "Location", "/"))]
\* the redirect of an Inertia request turned into a location response
ToLocationResponse(r) ==
    LET location_url == MutableHeadersGet(r.headers, "Location", "/")
    IN  [r EXCEPT !.status = CONFLICT,
                  !.headers = MutableHeadersDel(
                      MutableHeadersSet(@, "X-Inertia-Location", location_url),
                      "Location")]

\* dispatch, after call_next, with the redirects of PUT, PATCH and DELETE
\* left as they are
dispatch_response_NonGetUntouched(sc, m, r) ==
    IF _is_inertia_request(sc)
    THEN IF _is_non_get_redirect(m, r) THEN r
         ELSE IF _is_redirect_response(r) THEN ToLocationResponse(r)
         ELSE r
    ELSE r

\* dispatch, after call_next: what becomes of the response
dispatch_response(sc, m, r) ==
    IF _is_inertia_request(sc)
    THEN IF _is_non_get_redirect(m, r) THEN [r EXCEPT !.status = SEE_OTHER]
         ELSE IF _is_redirect_response(r) THEN ToLocationResponse(r)
         ELSE r
    ELSE r

\* InertiaRequest.set_inertia_state(data), as it leaves request.state
set_inertia_state(st, data) ==
    [has |-> TRUE,
     props |-> InertiaShare_set(IF st.has THEN st.props ELSE <<>>, data)]

---------------------------------------------------------------------------
(* One request through the application that setup_inertia builds.          *)
(* setup_inertia adds InertiaMiddleware first and the shared data          *)
(* middleware second; starlette puts each middleware it is given in front  *)
(* of the ones it has, so a request meets the shared data middleware, then *)
(* InertiaMiddleware, then the route.                                      *)

StaleVersion == <<"0", ".", "9">>
\* str(request.url)
RequestUrl == "http://testserver/page"
Methods == {"GET", "POST", "PUT", "PATCH", "DELETE"}

\* the header sets of the requests: the marker and the version, each name
\* spelled as the protocol writes it or in lower case
HttpWire ==
    { NoHeaders }
    \cup
    { [n \in {Spell(lc, m) : m \in names} |->
          CASE Lower(n) = "x-inertia" -> <<"t", "r", "u", "e">>
            [] Lower(n) = "x-inertia-version" -> ver
            [] OTHER -> <<>>] :
        lc \in BOOLEAN,
        ver \in {INERTIA_VERSION, StaleVersion},
        names \in {{"X-Inertia"}, {"X-Inertia-Version"},
                   {"X-Inertia", "X-Inertia-Version"}} }

\* the applications: setup_inertia with or without a shared_data_callback,
\* INERTIA_SSR_ENABLED set or not
Apps == [shared_data_callback : BOOLEAN, INERTIA_SSR_ENABLED : BOOLEAN]

\* what the shared_data_callback returns
SharedData == <<<<kn, Plain(3)>>>>

\* the responses of routes that do not render
RouteResponses ==
    { PlainResponse(s, h) :
        s \in {OK, MOVED_PERMANENTLY, FOUND, SEE_OTHER, 307, 308, 404},
        h \in {<<>>, <<<<"Location", "/about">>>>} }

\* the arguments of render(request, TestComponent, props, template_data,
\* status_code)
RenderProps ==
    { <<>>,
      <<<<ks, Plain(1)>>>>,
      <<<<ks, Fn(1, Plain(2))>>>>,
      <<<<kt, DeferredProp(Fn(2, Plain(2)), "default", FALSE)>>>> }
TemplateDatas == { <<>>, <<<<kt, Plain(7)>>>> }
RenderStatuses == {OK, 422}

InitHttp ==
    /\ pc = "idle"
    /\ wire = NoHeaders
    /\ scope = NoHeaders
    /\ state = NoShare
    /\ nshare = 0
    /\ props = <<>>
    /\ page = NoPage
    /\ partial = FALSE
    /\ invoked = <<>>
    /\ app \in Apps
    /\ method = ""
    /\ ran = <<>>
    /\ responder = NoResponse
    /\ returned = NoResponse
    /\ history = NoHistory
    /\ down = NoResponse
    /\ resp = NoResponse
    /\ reqs = <<>>

\* a request arrives
HttpReceive(w, m) ==
    /\ pc = "idle"
    /\ pc' = IF app.shared_data_callback THEN "shared_data_middleware"
             ELSE "dispatch"
    /\ wire' = w
    /\ scope' = AsgiScopeHeaders(w)
    /\ method' = m
    /\ UNCHANGED <<state, nshare, props, page, partial, invoked>>
    /\ UNCHANGED <<app, ran, responder, down, resp, reqs,
                   returned, history>>

\* shared_data_middleware, up to call_next
SharedDataMiddleware ==
    /\ pc = "shared_data_middleware"
    /\ pc' = "dispatch"
    /\ ran' = Append(ran, "shared_data_callback")
    /\ state' = set_inertia_state(state, SharedData)
    /\ UNCHANGED <<wire, scope, nshare, props, page, partial, invoked>>
    /\ UNCHANGED <<app, method, responder, down, resp, reqs,
                   returned, history>>

\* InertiaMiddleware.dispatch, up to call_next
DispatchRequest ==
    /\ pc = "dispatch"
    /\ IF RefusesStale(scope, method)
       THEN /\ resp' = _force_refresh(RequestUrl)
            /\ pc' = "sent"
       ELSE /\ pc' = "route"
            /\ UNCHANGED resp
    /\ UNCHANGED <<wire, scope, state, nshare, props, page, partial, invoked, app, method, ran, responder, down, reqs,
                   returned, history>>

\* the route handler runs and returns a response of its own
RouteReturns(r) ==
    /\ pc = "route"
    /\ pc' = "post"
    /\ ran' = Append(ran, "handler")
    /\ down' = r
    /\ resp' = r
    /\ UNCHANGED <<wire, scope, state, nshare, props, page, partial, invoked, app, method, responder, reqs,
                   returned, history>>

\* render(request, TestComponent, p, template_data, status_code):
\* InertiaResponse.__call__, up to the response or to the SSR call
render(p, template_data, status_code) ==
    /\ LET bp == _build_props(scope, state, p, TestComponent)
           page_data == _build_page_data(scope, state, p, TestComponent)
           data == json_encode(page_data)
           self == [status_code |-> status_code,
                    template_data |-> template_data,
                    data |-> data, outcome |-> "none"]
       IN  /\ page' = page_data
           /\ invoked' = bp.log
           /\ props' = AfterBuild(p, <<>>, bp.res)
           /\ state' = [state EXCEPT !.props = AfterBuild(@, p, bp.res)]
           /\ responder' = self
           /\ IF is_inertia(scope)
              THEN /\ resp' = JSONResponse(data, status_code,
                                  << <<"Vary", "X-Inertia">>,
                                     <<"X-Inertia", "true">>,
                                     <<"Content-Type", "application/json">> >>)
                   /\ down' = resp'
                   /\ pc' = "post"
              ELSE IF app.INERTIA_SSR_ENABLED
              THEN /\ pc' = "ssr"
                   /\ UNCHANGED <<down, resp>>
              ELSE /\ resp' = HTMLResponse(
                                  _build_first_load(FALSE, "none", data,
                                                    template_data),
                                  status_code, <<>>)
                   /\ down' = resp'
                   /\ pc' = "post"

\* the route handler runs and renders
RouteRenders(p, template_data, status_code) ==
    /\ pc = "route"
    /\ ran' = Append(ran, "handler")
    /\ render(p, template_data, status_code)
    /\ UNCHANGED <<wire, scope, nshare, partial, app, method, reqs,
                   returned, history>>

\* isinstance(props, dict)
isinstance_dict_Never(v) == FALSE
isinstance_dict(v) == v.kind = "dict"

\* what a handler under the inertia decorator returns: a dict of props, or
\* a response of its own
HandlerReturns == {Dict(p) : p \in RenderProps} \cup RouteResponses

\* the route handler runs under inertia(TestComponent): inner
Inner(ret) ==
    /\ pc = "route"
    /\ ran' = Append(ran, "handler")
    /\ returned' = ret
    /\ IF ~isinstance_dict(ret)
       THEN /\ down' = ret
            /\ resp' = ret
            /\ pc' = "post"
            /\ UNCHANGED <<state, props, page, invoked, responder>>
       ELSE render(ret.items, <<>>, OK)
    /\ UNCHANGED <<wire, scope, nshare, partial, app, method, reqs, history>>

\* requests.post returns or raises, and __call__ runs to its response
SsrAnswers(outcome) ==
    /\ pc = "ssr"
    /\ pc' = "post"
    /\ responder' = [responder EXCEPT !.outcome = outcome]
    /\ resp' = HTMLResponse(
                   _build_first_load(TRUE, outcome, responder.data,
                                     responder.template_data),
                   responder.status_code, <<>>)
    /\ down' = resp'
    /\ UNCHANGED <<wire, scope, state, nshare, props, page, partial, invoked, app, method, ran, reqs,
                   returned, history>>

\* InertiaMiddleware.dispatch, after call_next; shared_data_middleware
\* returns what it gets
DispatchResponse ==
    /\ pc = "post"
    /\ pc' = "sent"
    /\ resp' = dispatch_response(scope, method, resp)
    /\ UNCHANGED <<wire, scope, state, nshare, props, page, partial, invoked, app, method, ran, responder, down, reqs,
                   returned, history>>

\* the response is sent and the request is over
HttpFinish ==
    /\ pc = "sent"
    /\ pc' = "idle"
    /\ wire' = NoHeaders
    /\ scope' = NoHeaders
    /\ state' = NoShare
    /\ props' = <<>>
    /\ page' = NoPage
    /\ invoked' = <<>>
    /\ method' = ""
    /\ ran' = <<>>
    /\ responder' = NoResponse
    /\ returned' = NoResponse
    /\ down' = NoResponse
    /\ resp' = NoResponse
    /\ UNCHANGED <<nshare, partial, app, reqs, history>>

\* the steps the program takes by itself
ProgramStep ==
    \/ SharedDataMiddleware
    \/ DispatchRequest
    \/ \E r \in RouteResponses : RouteReturns(r)
    \/ \E p \in RenderProps, td \in TemplateDatas, sc \in RenderStatuses :
          RouteRenders(p, td, sc)
    \/ \E ret \in HandlerReturns : Inner(ret)
    \/ DispatchResponse
    \/ HttpFinish

NextHttp ==
    \/ \E w \in HttpWire, m \in Methods : HttpReceive(w, m)
    \/ SharedDataMiddleware
    \/ DispatchRequest
    \/ \E r \in RouteResponses : RouteReturns(r)
    \/ \E p \in RenderProps, td \in TemplateDatas, sc \in RenderStatuses :
          RouteRenders(p, td, sc)
    \/ \E ret \in HandlerReturns : Inner(ret)
    \/ \E outcome \in SsrOutcomes : SsrAnswers(outcome)
    \/ DispatchResponse
    \/ HttpFinish

SpecHttp == InitHttp /\ [][NextHttp]_vars

\* The program's own steps are taken when they can be; nothing makes a
\* client send a request or the SSR service answer one.
FairSpecHttp == SpecHttp /\ WF_vars(ProgramStep)

---------------------------------------------------------------------------
(* The vocabulary of the claims about the pipeline *)

\* the route rendered, and its response is on its way out
Rendered == pc \in {"post", "sent"} /\ responder # NoResponse
\* the response has left the middleware
Delivered == pc = "sent"
\* the route answered (the response did not come from the version check)
Answered == down.kind # "none"
\* an Inertia GET whose version is not the configured one
StaleGet ==
    /\ Carries("X-Inertia")
    /\ method = "GET"
    /\ Sent("X-Inertia-Version", <<>>) # INERTIA_VERSION
\* the route's response is a 301 or a 302
DownRedirect == Answered /\ down.status \in {301, 302}

---------------------------------------------------------------------------
(* C11: the responder chooses its output from the Inertia marker alone:    *)
(* a request that carries X-Inertia gets the page object as a JSON body    *)
(* with the caller's status code and the headers Vary: X-Inertia,          *)
(* X-Inertia: true, Content-Type: application/json; a request without the  *)
(* marker gets the HTML shell with the caller's status code.               *)
(* Violated: is_inertia looks for "X-Inertia" in dict(request.headers),    *)
(* whose names are lower-case, so every request gets the HTML shell.       *)
C11_MarkerChoosesOutput ==
    Rendered =>
        IF Carries("X-Inertia")
        THEN /\ down.kind = "JSONResponse"
             /\ down.status = responder.status_code
             /\ {"vary", "x-inertia", "content-type"} \subseteq DOMAIN down.headers
             /\ down.headers["vary"] = "X-Inertia"
             /\ down.headers["x-inertia"] = "true"
             /\ down.headers["content-type"] = "application/json"
        ELSE /\ down.kind = "HTMLResponse"
             /\ down.status = responder.status_code

---------------------------------------------------------------------------
(* C12: on a first load with SSR enabled, a failed SSR call (network       *)
(* error, non-2xx status, a body that is no JSON object) is not            *)
(* propagated: the response is the HTML shell rendered from inertia.html   *)
(* with the context {page: the serialized page object} plus the template   *)
(* data, as when SSR is disabled; only a successful call selects           *)
(* inertia_ssr.html.                                                       *)
C12_SsrFailureFallsBack ==
    (Rendered /\ ~Carries("X-Inertia") /\ app.INERTIA_SSR_ENABLED) =>
        /\ down.kind = "HTMLResponse"
        /\ down.status = responder.status_code
        /\ IF responder.outcome = "rendered"
           THEN down.body.template = "inertia_ssr.html"
           ELSE down.body =
                    [template |-> "inertia.html",
                     inertia_layout |-> "base.html",
                     context |-> DictMerge(<<<<kpage, [json |-> page]>>>>,
                                           responder.template_data)]

C12_Witness ==
    /\ Delivered /\ Rendered /\ ~Carries("X-Inertia") /\ app.INERTIA_SSR_ENABLED
    /\ responder.outcome = "invalid JSON"
    /\ responder.template_data # <<>>
    /\ resp.body.template = "inertia.html"

---------------------------------------------------------------------------
(* C13: a first-load request with SSR enabled always ends in a response,   *)
(* even when the SSR service never answers.                                *)
(* Violated: requests.post is called without a timeout and the settings    *)
(* have none, so the responder waits for as long as the service is silent. *)
C13_SsrCallEnds ==
    (pc = "ssr" /\ ~Carries("X-Inertia")) ~> Delivered

---------------------------------------------------------------------------
(* C14: an Inertia GET whose X-Inertia-Version is not the configured       *)
(* version (no header counting as the empty string) is answered by the     *)
(* middleware with 409 and X-Inertia-Location = the request URL; an        *)
(* Inertia GET with the configured version, a non-GET and a non-Inertia    *)
(* request are not stopped by the version check and reach the route.       *)
C14_VersionCheck ==
    /\ (StaleGet /\ pc \notin {"idle", "shared_data_middleware", "dispatch"}) =>
          /\ Delivered
          /\ ~Answered
          /\ resp.status = 409
          /\ "x-inertia-location" \in DOMAIN resp.headers
          /\ resp.headers["x-inertia-location"] = RequestUrl
    /\ (Delivered /\ ~StaleGet) => (Answered /\ InList("handler", ran))

C14_Witness ==
    /\ Delivered /\ StaleGet /\ ~Carries("X-Inertia-Version")
    /\ resp.status = 409
    /\ resp.headers["x-inertia-location"] = RequestUrl

---------------------------------------------------------------------------
(* C15: when an Inertia GET is refused for a stale version, no application *)
(* code has run for it: neither the route handler nor the shared data      *)
(* callback given to setup_inertia.                                        *)
(* Violated: the shared data middleware is added after InertiaMiddleware   *)
(* and so stands in front of it; the callback runs before the check.       *)
C15_NoApplicationCode ==
    (Delivered /\ StaleGet) => ran = <<>>

---------------------------------------------------------------------------
(* C16: an Inertia PUT, PATCH or DELETE whose route answers 301 or 302     *)
(* leaves the middleware with status 303, its Location header as it was    *)
(* and no X-Inertia-Location header.                                       *)
C16_NonGetRedirect ==
    (Delivered /\ Carries("X-Inertia") /\ method \in {"PUT", "PATCH", "DELETE"}
        /\ DownRedirect) =>
        /\ resp.status = 303
        /\ "x-inertia-location" \notin DOMAIN resp.headers
        /\ "location" \in DOMAIN down.headers =>
              /\ "location" \in DOMAIN resp.headers
              /\ resp.headers["location"] = down.headers["location"]

C16_Witness ==
    /\ Delivered /\ Carries("X-Inertia") /\ method = "DELETE"
    /\ DownRedirect /\ down.status = 301
    /\ resp.status = 303
    /\ "location" \in DOMAIN resp.headers

---------------------------------------------------------------------------
(* C17: an Inertia request of any other method (GET, POST) whose route     *)
(* answers 301 or 302 leaves the middleware with status 409, with          *)
(* X-Inertia-Location holding the value the Location header had, and       *)
(* without a Location header.                                              *)
C17_RedirectToLocation ==
    (Delivered /\ Carries("X-Inertia") /\ method \notin {"PUT", "PATCH", "DELETE"}
        /\ DownRedirect) =>
        /\ resp.status = 409
        /\ "location" \notin DOMAIN resp.headers
        /\ "location" \in DOMAIN down.headers =>
              /\ "x-inertia-location" \in DOMAIN resp.headers
              /\ resp.headers["x-inertia-location"] = down.headers["location"]

C17_Witness ==
    /\ Delivered /\ Carries("X-Inertia") /\ method = "POST"
    /\ DownRedirect /\ down.status = 302
    /\ "location" \in DOMAIN down.headers
    /\ resp.status = 409
    /\ resp.headers["x-inertia-location"] = "/about"

---------------------------------------------------------------------------
(* C18: the middleware leaves the status and the headers of the route's    *)
(* response as they are when the request carries no X-Inertia (301 and 302 *)
(* included) or the status is not 301 or 302.                              *)
C18_PassThrough ==
    (Delivered /\ Answered /\ (~Carries("X-Inertia") \/ ~DownRedirect)) =>
        /\ resp.status = down.status
        /\ resp.headers = down.headers

C18_Witness ==
    /\ Delivered /\ Answered /\ Carries("X-Inertia")
    /\ down.status = 307
    /\ "location" \in DOMAIN down.headers
    /\ resp = down

---------------------------------------------------------------------------
(* Two requests served concurrently.  Each request has a scope of its own, *)
(* and request.state is the state of that scope; share() and               *)
(* set_inertia_state keep the InertiaShare there, and the responder reads  *)
(* it from there.                                                          *)

Requests == {1, 2}

\* every request's shared state kept in one place, the first request's
StateOwner_Global(r) == 1
\* whose state request.state is, for request r
StateOwner(r) == r

\* what request r shares: the values tell the requests apart
SharedKwargsOf(r) ==
    { <<<<kn, Plain(10 * r)>>>>,
      <<<<kn, Fn(r, Plain(10 * r + 1))>>>>,
      <<<<ks, Plain(10 * r + 2)>>>> }
\* what the shared_data_callback returns for request r
SharedDataOf(r) == << <<kn, Plain(10 * r + 3)>>, <<kt, Plain(10 * r + 4)>> >>
\* what the handler of request r returns
HandlerPropsOf(r) == { <<>>, <<<<kt, Plain(r)>>>> }

NewRequest ==
    [pc |-> "open", state |-> NoShare, written |-> <<>>, props |-> <<>>,
     page |-> NoPage]

InitTwo ==
    /\ pc = "idle"
    /\ wire = NoHeaders
    /\ scope = NoHeaders
    /\ state = NoShare
    /\ nshare = 0
    /\ props = <<>>
    /\ page = NoPage
    /\ partial = FALSE
    /\ invoked = <<>>
    /\ app = DefaultApp
    /\ method = ""
    /\ ran = <<>>
    /\ responder = NoResponse
    /\ returned = NoResponse
    /\ history = NoHistory
    /\ down = NoResponse
    /\ resp = NoResponse
    /\ reqs = [r \in Requests |-> NewRequest]

\* share(request, **kwargs) on request r
ShareOn(r, kwargs) ==
    /\ reqs[r].pc = "open"
    /\ Len(reqs[r].written) < MaxShares
    /\ reqs' = [reqs EXCEPT ![StateOwner(r)].state = share(@, kwargs),
                            ![r].written = Append(@, kwargs)]
    /\ UNCHANGED <<pc, wire, scope, state, nshare, props, page, partial,
                   invoked, httpvars>>

\* InertiaRequest(request).set_inertia_state(shared_data) on request r
SetInertiaStateOn(r) ==
    /\ reqs[r].pc = "open"
    /\ Len(reqs[r].written) < MaxShares
    /\ reqs' = [reqs EXCEPT
                  ![StateOwner(r)].state = set_inertia_state(@, SharedDataOf(r)),
                  ![r].written = Append(@, SharedDataOf(r))]
    /\ UNCHANGED <<pc, wire, scope, state, nshare, props, page, partial,
                   invoked, httpvars>>

\* the handler of request r returns its props
HandlerOn(r, p) ==
    /\ reqs[r].pc = "open"
    /\ reqs' = [reqs EXCEPT ![r].pc = "handled", ![r].props = p]
    /\ UNCHANGED <<pc, wire, scope, state, nshare, props, page, partial,
                   invoked, httpvars>>

\* InertiaResponse(request, TestComponent, props)._build_page_data() on
\* request r, a first load
BuildOn(r) ==
    /\ reqs[r].pc = "handled"
    /\ LET st == reqs[StateOwner(r)].state
           pr == reqs[r].props
           bp == _build_props(NoHeaders, st, pr, TestComponent)
       IN  reqs' = [reqs EXCEPT
                      ![StateOwner(r)].state.props = AfterBuild(@, pr, bp.res),
                      ![r].props = AfterBuild(pr, <<>>, bp.res),
                      ![r].page = _build_page_data(NoHeaders, st, pr,
                                                   TestComponent),
                      ![r].pc = "built"]
    /\ UNCHANGED <<pc, wire, scope, state, nshare, props, page, partial,
                   invoked, httpvars>>

\* request r is over, and the next one on its connection begins
FinishOn(r) ==
    /\ reqs[r].pc = "built"
    /\ reqs' = [reqs EXCEPT ![r] = NewRequest]
    /\ UNCHANGED <<pc, wire, scope, state, nshare, props, page, partial,
                   invoked, httpvars>>

NextTwo ==
    \/ \E r \in Requests : \E kwargs \in SharedKwargsOf(r) : ShareOn(r, kwargs)
    \/ \E r \in Requests : SetInertiaStateOn(r)
    \/ \E r \in Requests : \E p \in HandlerPropsOf(r) : HandlerOn(r, p)
    \/ \E r \in Requests : BuildOn(r)
    \/ \E r \in Requests : FinishOn(r)

SpecTwo == InitTwo /\ [][NextTwo]_vars

---------------------------------------------------------------------------
(* C19: after any sequence of set and share calls on one request, all()    *)
(* gives the bag in which every key written by any of the calls is         *)
(* present, with the value of the last call that wrote it; the bag exists  *)
(* from the first call on.                                                 *)

\* the keys the calls w wrote
KeysWritten(w) == UNION {KeySet(w[i]) : i \in 1..Len(w)}
\* the value the last call of w that wrote k gave it
RECURSIVE LastWritten(_, _)
LastWritten(w, k) ==
    IF HasKey(w[Len(w)], k) THEN DictGet(w[Len(w)], k)
    ELSE LastWritten(SubSeq(w, 1, Len(w) - 1), k)

C19_LastWriteWins ==
    \A r \in Requests :
        LET w == reqs[r].written
            all == reqs[r].state.props
        IN  /\ reqs[r].state.has <=> w # <<>>
            /\ KeySet(all) = KeysWritten(w)
            /\ \A k \in KeysWritten(w) : DictGet(all, k) = LastWritten(w, k)

C19_Witness ==
    \E r \in Requests :
        LET w == reqs[r].written
            all == reqs[r].state.props
        IN  /\ Len(w) = 2
            /\ w[1] = SharedDataOf(r)
            /\ HasKey(w[2], kn)
            /\ DictGet(all, kn) = DictGet(w[2], kn)
            /\ DictGet(all, kn) # DictGet(w[1], kn)
            /\ DictGet(all, kt) = DictGet(w[1], kt)

---------------------------------------------------------------------------
(* C20: shared state is kept per request: however the share and set calls  *)
(* and the builds of two requests in flight interleave, every prop of a    *)
(* response comes from its own request, from the handler's props or from   *)
(* a call that shared it on that request.                                  *)
C20_Isolated ==
    \A r \in Requests :
        reqs[r].pc = "built" =>
            \A i \in 1..Len(reqs[r].page.props) :
                LET k == reqs[r].page.props[i][1]
                    v == reqs[r].page.props[i][2]
                    w == reqs[r].written
                IN  \/ /\ HasKey(reqs[r].props, k)
                       /\ v = Resolved(DictGet(reqs[r].props, k))
                    \/ \E j \in 1..Len(w) :
                          /\ HasKey(w[j], k)
                          /\ v = Resolved(DictGet(w[j], k))

C20_Witness ==
    /\ \A r \in Requests :
          /\ reqs[r].pc = "built"
          /\ Len(reqs[r].written) = 1
          /\ HasKey(reqs[r].written[1], kn)
          /\ HasKey(reqs[r].page.props, kn)
    /\ DictGet(reqs[1].page.props, kn) # DictGet(reqs[2].page.props, kn)

---------------------------------------------------------------------------
(* The history flags of the page object *)

TypeError == [kind |-> "TypeError"]
PyInt == [kind |-> "int"]

\* validate_type(value, name, expected_type): the value, or a TypeError
validate_type(value, expected_type) ==
    IF value.kind = expected_type THEN value ELSE TypeError

\* encrypt_history(request, value)
encrypt_history(h, value) == [h EXCEPT !.encrypt = value]

\* clear_history(request): its body is `pass`
clear_history(h) == h

\* should_encrypt_history that reads the configured default only
should_encrypt_history_DefaultOnly(h) ==
    validate_type(PyBool(h.INERTIA_ENCRYPT_HISTORY), "bool")
\* InertiaRequest.should_encrypt_history: getattr(request.state,
\* "_inertia_encrypt_history", settings.INERTIA_ENCRYPT_HISTORY), validated
should_encrypt_history(h) ==
    validate_type(IF h.encrypt # Unset THEN h.encrypt
                  ELSE PyBool(h.INERTIA_ENCRYPT_HISTORY), "bool")

\* INERTIA_SESSION_CLEAR_HISTORY
kclear == <<"_", "c">>
\* session = {} at the head of _build_page_data
NewSession == <<>>
\* validate_type(session.pop(INERTIA_SESSION_CLEAR_HISTORY, False), bool)
SessionClearHistory(session) ==
    validate_type(IF HasKey(session, kclear) THEN DictGet(session, kclear)
                  ELSE PyBool(FALSE), "bool")

\* InertiaResponse._build_page_data with every field of the page, or the
\* TypeError it raises
PageObject(sc, st, pr, component, h) ==
    LET clear == SessionClearHistory(NewSession)
        encrypt == should_encrypt_history(h)
    IN  IF clear = TypeError \/ encrypt = TypeError THEN TypeError
        ELSE _build_page_data(sc, st, pr, component)
             @@ [url |-> RequestUrl, version |-> INERTIA_VERSION,
                 encryptHistory |-> encrypt.val, clearHistory |-> clear.val]

\* what encrypt_history is called with
EncryptValues == {PyBool(TRUE), PyBool(FALSE), PyStr, PyInt, PyNone}

InitHistory ==
    /\ pc = "open"
    /\ wire = NoHeaders
    /\ scope = NoHeaders
    /\ state = NoShare
    /\ nshare = 0
    /\ props = <<>>
    /\ page = NoPage
    /\ partial = FALSE
    /\ invoked = <<>>
    /\ app = DefaultApp
    /\ method = ""
    /\ ran = <<>>
    /\ responder = NoResponse
    /\ returned = NoResponse
    /\ history \in {[NoHistory EXCEPT !.INERTIA_ENCRYPT_HISTORY = b] :
                       b \in BOOLEAN}
    /\ down = NoResponse
    /\ resp = NoResponse
    /\ reqs = <<>>

\* the handler calls encrypt_history(request, value)
EncryptHistory(value) ==
    /\ pc = "open"
    /\ history' = encrypt_history(history, value)
    /\ UNCHANGED <<pc, wire, scope, state, nshare, props, page, partial,
                   invoked, app, method, ran, responder, returned, down,
                   resp, reqs>>

\* the handler calls clear_history(request)
ClearHistory ==
    /\ pc = "open"
    /\ history' = [clear_history(history) EXCEPT !.clear_history_called = TRUE]
    /\ UNCHANGED <<pc, wire, scope, state, nshare, props, page, partial,
                   invoked, app, method, ran, responder, returned, down,
                   resp, reqs>>

\* the handler renders: InertiaResponse.__call__ on a first load.  The props
\* are built before the history flag is read, so a TypeError comes after the
\* producers have run.
RenderHistory(p) ==
    /\ pc = "open"
    /\ LET bp == _build_props(scope, state, p, TestComponent)
           page_data == PageObject(scope, state, p, TestComponent, history)
       IN  /\ invoked' = bp.log
           /\ props' = AfterBuild(p, <<>>, bp.res)
           /\ IF page_data = TypeError
              THEN /\ pc' = "raised"
                   /\ UNCHANGED <<page, resp>>
              ELSE /\ pc' = "built"
                   /\ page' = page_data
                   /\ resp' = HTMLResponse(
                                  _build_first_load(FALSE, "none",
                                      json_encode(page_data), <<>>),
                                  OK, <<>>)
    /\ UNCHANGED <<wire, scope, state, nshare, partial, app, method, ran,
                   responder, returned, history, down, reqs>>

\* the request is over
FinishHistory ==
    /\ pc \in {"built", "raised"}
    /\ pc' = "open"
    /\ props' = <<>>
    /\ page' = NoPage
    /\ invoked' = <<>>
    /\ resp' = NoResponse
    /\ history' = [NoHistory EXCEPT !.INERTIA_ENCRYPT_HISTORY =
                                        history.INERTIA_ENCRYPT_HISTORY]
    /\ UNCHANGED <<wire, scope, state, nshare, partial, app, method, ran,
                   responder, returned, down, reqs>>

NextHistory ==
    \/ \E value \in EncryptValues : EncryptHistory(value)
    \/ ClearHistory
    \/ \E p \in RenderProps : RenderHistory(p)
    \/ FinishHistory

SpecHistory == InitHistory /\ [][NextHistory]_vars

---------------------------------------------------------------------------
(* C21: encryptHistory of the page object is the value given to            *)
(* encrypt_history(request, value) when there was such a call, and the     *)
(* configured default otherwise; when that value is no boolean the build   *)
(* fails with a type error, and neither a page object nor a response is    *)
(* produced.                                                               *)
C21_EncryptHistory ==
    /\ pc = "built" =>
          /\ history.encrypt.kind \in {"unset", "bool"}
          /\ page.encryptHistory =
                 IF history.encrypt.kind = "bool" THEN history.encrypt.val
                 ELSE history.INERTIA_ENCRYPT_HISTORY
    /\ (pc \in {"built", "raised"}
            /\ history.encrypt.kind \notin {"unset", "bool"}) =>
          /\ pc = "raised"
          /\ page = NoPage
          /\ resp = NoResponse

C21_Witness ==
    /\ pc = "built"
    /\ history.encrypt.kind = "bool"
    /\ history.encrypt.val # history.INERTIA_ENCRYPT_HISTORY
    /\ page.encryptHistory = history.encrypt.val

---------------------------------------------------------------------------
(* C24: clearHistory of the page object is the clear-history flag of the   *)
(* session: once clear_history(request) was called, the next page object   *)
(* built has clearHistory true.                                            *)
(* Violated: clear_history does nothing, and _build_page_data reads the    *)
(* flag from a dict it has just created.                                   *)
C24_ClearHistory ==
    (pc = "built" /\ history.clear_history_called) => page.clearHistory

---------------------------------------------------------------------------
(* C25: a handler under the inertia(component) decorator has what it       *)
(* returns rendered as an Inertia response for that component exactly when *)
(* it returns a dict; any other value (a redirect response) is returned as *)
(* it is, no page object is built and no producer is invoked.              *)
C25_DictRendered ==
    (pc \in {"ssr", "post", "sent"} /\ returned.kind # "none") =>
        IF returned.kind = "dict"
        THEN /\ responder # NoResponse
             /\ page # NoPage
             /\ page.component = TestComponent
             /\ pc # "ssr" => down.kind \in {"HTMLResponse", "JSONResponse"}
        ELSE /\ down = returned
             /\ responder = NoResponse
             /\ page = NoPage
             /\ invoked = <<>>

C25_Witness ==
    /\ pc = "sent"
    /\ returned.kind = "Response"
    /\ returned.status = 302
    /\ down = returned
    /\ page = NoPage

---------------------------------------------------------------------------
(* Requests whose keys are empty or written with spaces: the life of one   *)
(* request again, with other headers and other props.                      *)

kempty == <<>>
kspace == <<" ", "s">>

\* the header sets: a partial request for TestComponent whose
\* X-Inertia-Partial-Data is empty, " s" or "s", with no X-Inertia-Reset, an
\* empty one or "s"; and requests with neither header
KeyWire ==
    { NoHeaders }
    \cup
    { [n \in {Spell(lc, m) : m \in names} |->
          CASE Lower(n) = "x-inertia" -> <<"t", "r", "u", "e">>
            [] Lower(n) = "x-inertia-partial-data" -> pd
            [] Lower(n) = "x-inertia-partial-component" -> TestComponent
            [] Lower(n) = "x-inertia-reset" -> rs
            [] OTHER -> <<>>] :
        lc \in BOOLEAN,
        pd \in {kempty, kspace, ks},
        rs \in {kempty, ks},
        names \in {{"X-Inertia"},
                   {"X-Inertia", "X-Inertia-Reset"},
                   {"X-Inertia", "X-Inertia-Partial-Data",
                    "X-Inertia-Partial-Component"},
                   {"X-Inertia", "X-Inertia-Partial-Data",
                    "X-Inertia-Partial-Component", "X-Inertia-Reset"}} }

\* the dicts a handler returns: up to two of the keys "", " s" and "s", each
\* plain or an always-merge prop
KeyEntries ==
    { <<k, v>> : k \in {kempty, kspace, ks},
                 v \in {Plain(1), MergeProp(Fn(1, Plain(2)))} }
KeyProps ==
    {<<>>} \cup {<<e>> : e \in KeyEntries}
    \cup {d \in {<<e, f>> : e \in KeyEntries, f \in KeyEntries} :
             d[1][1] # d[2][1]}

NextKeys ==
    \/ \E w \in KeyWire : Receive(w)
    \/ \E p \in KeyProps : Handler(p)
    \/ BuildPageData
    \/ Finish

SpecKeys == Init /\ [][NextKeys]_vars

---------------------------------------------------------------------------
(* C22: a request without X-Inertia-Partial-Data is never treated as a     *)
(* partial render, and a request without X-Inertia-Reset resets nothing:   *)
(* every explicit prop whose variant declares should-merge, whatever its   *)
(* key, is listed in mergeProps.                                           *)
(* Violated: with no X-Inertia-Reset the reset keys are "".split(","),     *)
(* the list [""], so a should-merge prop whose key is "" is left out.      *)
C22_MissingHeaders ==
    /\ (Built /\ ~Carries("X-Inertia-Partial-Data")) => ~partial
    /\ (Built /\ ~Carries("X-Inertia-Reset")) =>
          \A i \in 1..Len(props) :
              DeclaresMerge(props[i][2]) => Listed(props[i][1])

---------------------------------------------------------------------------
(* C26: the requested keys are the pieces of X-Inertia-Partial-Data        *)
(* between commas, untrimmed: a partial render whose header is empty keeps *)
(* only a prop named "", and a key written with a space in front matches   *)
(* only a prop key with that space.                                        *)
(* Violated: no request is taken for a partial render (see C2), so the     *)
(* props are not filtered at all.                                          *)
C26_SplitWithoutTrim ==
    (Built /\ AsksPartial) =>
        /\ Sent("X-Inertia-Partial-Data", <<>>) = kempty =>
              KeySet(page.props) = KeySet(props) \cap {kempty}
        /\ Sent("X-Inertia-Partial-Data", <<>>) = kspace =>
              KeySet(page.props) = KeySet(props) \cap {kspace}

---------------------------------------------------------------------------
(* C23: the body emitted for an Inertia request, deserialized once, is a   *)
(* page object with the component, the props and the presence of           *)
(* deferredProps and mergeProps of the page object that was built, and     *)
(* serializing it again gives the same body.                               *)
(* Violated: an Inertia request gets the HTML shell (see C11), no JSON     *)
(* body.                                                                   *)
C23_RoundTrip ==
    (Rendered /\ Carries("X-Inertia")) =>
        /\ down.kind = "JSONResponse"
        /\ "json" \in DOMAIN down.body
        /\ LET got == json_decode(down.body)
           IN  /\ {"component", "props"} \subseteq DOMAIN got
               /\ got.component = page.component
               /\ got.props = page.props
               /\ \A f \in {"deferredProps", "mergeProps"} :
                      f \in DOMAIN got <=> f \in DOMAIN page
               /\ [json |-> got] = down.body

---------------------------------------------------------------------------
(* C27: the response InertiaMiddleware returns for a request that carries  *)
(* X-Inertia and reached the route never has status 301 or 302, and the    *)
(* second pass of a middleware installed twice leaves its status and       *)
(* headers as they are.                                                    *)
C27_PostPassIdempotent ==
    (Delivered /\ Answered /\ Carries("X-Inertia")) =>
        /\ resp.status \notin {301, 302}
        /\ LET again == dispatch_response(scope, method, resp)
           IN  /\ again.status = resp.status
               /\ again.headers = resp.headers

C27_Witness ==
    /\ Delivered /\ Answered /\ Carries("X-Inertia")
    /\ method = "PUT"
    /\ down.status = 302
    /\ resp.status = 303
    /\ dispatch_response(scope, method, resp) = resp

---------------------------------------------------------------------------
(* C28: the responder and the middleware take the same requests for        *)
(* Inertia requests: is_inertia() and _is_inertia_request() agree whatever *)
(* the letter case of the header name, and so do the two kinds of lookup   *)
(* for X-Inertia-Partial-Data, X-Inertia-Partial-Component and             *)
(* X-Inertia-Reset.                                                        *)
(* Violated: the plain dict has the lower-case names of the framework's    *)
(* storage and is asked for "X-Inertia"; the framework's mapping finds the *)
(* header, the dict never does.                                            *)
C28_SameClassification ==
    /\ is_inertia(scope) = _is_inertia_request(scope)
    /\ \A name \in {"X-Inertia-Partial-Data", "X-Inertia-Partial-Component",
                    "X-Inertia-Reset"} :
           (name \in DOMAIN headers(scope)) = HeadersContains(scope, name)

---------------------------------------------------------------------------
(* C29: no Deferred prop is lost on a render that is not partial: every    *)
(* key left out of props because its value is a Deferred variant, one that *)
(* came from the shared state included, is listed in deferredProps under   *)
(* its group.                                                              *)
(* Violated: _build_props filters the shared state merged with the props,  *)
(* _build_deferred_props walks the handler's props only.                   *)
C29_NoDeferredLost ==
    (Built /\ ~AsksPartial) =>
        \A i \in 1..Len(Available) :
            LET k == Available[i][1]
                v == Available[i][2]
            IN  (v.kind = "DeferredProp" /\ ~HasKey(page.props, k)) =>
                    /\ "deferredProps" \in DOMAIN page
                    /\ HasKey(page.deferredProps, v.group)
                    /\ InList(k, DictGet(page.deferredProps, v.group))

---------------------------------------------------------------------------
(* C30: building a response does not modify its inputs: the handler's      *)
(* props and the shared state hold after the build what they held before   *)
(* it, nested mappings included.                                           *)
(* Violated: deep_transform_callables assigns the results into the nested  *)
(* dicts it walks, and those are the dicts of the handler's props and of   *)
(* the shared state.                                                       *)
C30_InputsUnchanged ==
    [][pc' = "built" => (props' = props /\ state' = state)]_vars

====
